---- MODULE Spec2Model ----
(***************************************************************************)
(* Model of micropython/pico_w_clock.py: a Raspberry Pi Pico W driving a   *)
(* 48x16 serpentine-wired NeoPixel matrix as an NTP-synchronised clock.    *)
(*                                                                         *)
(* Four specifications share the operators translated from the source:     *)
(*   Spec       the program itself (module body, lines 107 and 142-151)    *)
(*   FairSpec   the program under the fairness of a sequential interpreter *)
(*   PixelSpec  Matrix.__init__/fill/set_pixel/show applied to canvases of *)
(*              every size up to MaxWidth x MaxHeight and to the 4x3       *)
(*              canvas, in call sequences of at most MaxOps calls          *)
(*   GlyphSpec  draw_char/draw_text applied once, to every input of a      *)
(*              bounded set, on a fresh or filled canvas                   *)
(***************************************************************************)
EXTENDS Integers, Sequences, FiniteSets, TLC

VARIABLES
  pc,        \* position of the interpreter in the module body / call driver
  width,     \* Matrix.width
  height,    \* Matrix.height
  np,        \* Matrix.np: the driver's pixel buffer, index 0 .. n-1
  device,    \* the frame last transmitted by np.write() (physical LEDs)
  writes,    \* number of np.write() calls made so far
  wlan,      \* state of the network.WLAN station interface
  polls,     \* failed tests of wlan.isconnected() so far
  rtc,       \* the board's real-time clock, in minutes since midnight
  t,         \* loop variable t (hour and minute of time.localtime())
  time_str,  \* loop variable time_str, a sequence of characters
  console,   \* the messages printed so far
  call,      \* the canvas call made last (call driver only)
  np0,       \* the buffer as it was before that call (call driver only)
  log        \* the canvas calls made so far, in order (PixelSpec only)

vars == <<pc, width, height, np, device, writes, wlan, polls, rtc, t, time_str,
          console, call, np0, log>>

----------------------------------------------------------------------------
(* Program constants.                                                      *)

MATRIX_WIDTH == 48

MATRIX_HEIGHT == 16

OFF == <<0, 0, 0>>

TEXT_COLOR == <<0, 20, 50>>

ORIGIN_X == 2

ORIGIN_Y == 4

CHAR_ADVANCE == 6

FONT ==
  ("0" :> <<31, 17, 17, 17, 31>>) @@
  ("1" :> <<4, 12, 4, 4, 14>>) @@
  ("2" :> <<31, 1, 31, 16, 31>>) @@
  ("3" :> <<31, 1, 14, 1, 31>>) @@
  ("4" :> <<17, 17, 31, 1, 1>>) @@
  ("5" :> <<31, 16, 31, 1, 31>>) @@
  ("6" :> <<31, 16, 31, 17, 31>>) @@
  ("7" :> <<31, 1, 2, 4, 4>>) @@
  ("8" :> <<31, 17, 31, 17, 31>>) @@
  ("9" :> <<31, 17, 31, 1, 31>>) @@
  (":" :> <<0, 4, 0, 4, 0>>)

----------------------------------------------------------------------------
(* Bounds of the model.                                                    *)

MaxWidth == 3

MaxHeight == 2

MaxOps == 2

MaxWrites == 4

MaxTick == 1

MaxPolls == 1

OriginMargin == 6

----------------------------------------------------------------------------
(* The canvas: class Matrix.                                               *)

\* neopixel.NeoPixel(pin, n): a buffer of n pixels, all zero.
NeoPixel(n) == [i \in 0 .. n - 1 |-> OFF]

\* Matrix.__init__: no validation of width or height.
Matrix_init(w, h) ==
  /\ width' = w
  /\ height' = h
  /\ np' = NeoPixel(w * h)

_pixel_index_no_parity(w, x, y) == y * w + x

_pixel_index_off_by_one(w, x, y) ==
  IF y % 2 = 0 THEN y * w + x ELSE y * w + (w - x)

\* Matrix._pixel_index, with self.width passed as w.
_pixel_index(w, x, y) ==
  IF y % 2 = 0 THEN y * w + x ELSE y * w + (w - 1 - x)

fill_keep(buf, color) == buf

\* Matrix.fill, the loop over range(self.np.n).
fill(buf, color) == [i \in DOMAIN buf |-> color]

set_pixel_no_lower_bound(buf, x, y, color) ==
  IF x < width /\ y < height
  THEN [buf EXCEPT ![_pixel_index(width, x, y)] = color]
  ELSE buf

\* Matrix.set_pixel applied to the buffer buf of the matrix.
set_pixel(buf, x, y, color) ==
  IF 0 <= x /\ x < width /\ 0 <= y /\ y < height
  THEN [buf EXCEPT ![_pixel_index(width, x, y)] = color]
  ELSE buf

\* self.np.write(): transmit the buffer (as it is after this call's
\* assignments) to the LEDs.
np_write ==
  /\ writes < MaxWrites
  /\ device' = np'
  /\ writes' = writes + 1

\* Matrix.fill(color): overwrite every element, then write.
Matrix_fill(color) ==
  /\ np' = fill(np, color)
  /\ np_write

\* Matrix.show().
Matrix_show ==
  /\ np' = np
  /\ np_write

----------------------------------------------------------------------------
(* Glyph rendering: draw_char and draw_text on the global matrix.          *)

None == <<>>

\* FONT.get(char)
FONT_get(char) == IF char \in DOMAIN FONT THEN FONT[char] ELSE None

\* bits & (1 << k), as a truth value
BitAnd(bits, k) == (bits \div (2 ^ k)) % 2 = 1

\* Statement sequencing: the buffer `done` left by one loop iteration is
\* computed in full, once, and the rest of the loop runs on that value.
Then(done, rest(_)) == CHOOSE result \in {rest(b) : b \in {done}} : TRUE

draw_col_lsb_first(buf, bits, col, x, yrow, color) ==
  IF BitAnd(bits, col) THEN set_pixel(buf, x + col, yrow, color) ELSE buf

\* one iteration of `for col in range(5)` for the row mask bits
draw_col(buf, bits, col, x, yrow, color) ==
  IF BitAnd(bits, 4 - col) THEN set_pixel(buf, x + col, yrow, color) ELSE buf

\* `for col in range(5)` for the row mask bits, drawn on canvas row yrow
draw_row(buf, bits, x, yrow, color) ==
  LET c0 == draw_col(buf, bits, 0, x, yrow, color)
      c1 == draw_col(c0, bits, 1, x, yrow, color)
      c2 == draw_col(c1, bits, 2, x, yrow, color)
      c3 == draw_col(c2, bits, 3, x, yrow, color)
  IN draw_col(c3, bits, 4, x, yrow, color)

RECURSIVE draw_rows(_, _, _, _, _, _)
\* `for row, bits in enumerate(bitmap)` from row index `row` onwards
draw_rows(buf, bitmap, row, x, y, color) ==
  IF row >= Len(bitmap) THEN buf
  ELSE Then(draw_row(buf, bitmap[row + 1], x, y + row, color),
            LAMBDA b : draw_rows(b, bitmap, row + 1, x, y, color))

\* draw_char(char, x, y, color) applied to the buffer buf
draw_char(buf, char, x, y, color) ==
  LET bitmap == FONT_get(char)
  IN IF bitmap = None THEN buf ELSE draw_rows(buf, bitmap, 0, x, y, color)

RECURSIVE draw_text_skip_unknown(_, _, _, _, _)
draw_text_skip_unknown(buf, text, x, y, color) ==
  IF text = <<>> THEN buf
  ELSE LET nextx == IF FONT_get(Head(text)) = None
                    THEN x ELSE x + CHAR_ADVANCE
       IN Then(draw_char(buf, Head(text), x, y, color),
               LAMBDA b : draw_text_skip_unknown(b, Tail(text), nextx,
                                                 y, color))

RECURSIVE draw_text(_, _, _, _, _)
\* draw_text(text, x, y, color) applied to the buffer buf
draw_text(buf, text, x, y, color) ==
  IF text = <<>> THEN buf
  ELSE Then(draw_char(buf, Head(text), x, y, color),
            LAMBDA b : draw_text(b, Tail(text), x + CHAR_ADVANCE, y, color))

----------------------------------------------------------------------------
(* Time formatting: "{:02d}:{:02d}".format(t[3], t[4]).                    *)

DigitChar(d) == <<"0", "1", "2", "3", "4", "5", "6", "7", "8", "9">>[d + 1]

RECURSIVE Decimal(_)
\* str(n) for n >= 0
Decimal(n) ==
  IF n < 10 THEN <<DigitChar(n)>>
  ELSE Append(Decimal(n \div 10), DigitChar(n % 10))

RECURSIVE ZeroPad(_, _)
ZeroPad(s, w) == IF Len(s) >= w THEN s ELSE ZeroPad(<<"0">> \o s, w)

Format02d_unpadded(n) == Decimal(n)

\* "{:02d}".format(n)
Format02d(n) == ZeroPad(Decimal(n), 2)

\* "{:02d}:{:02d}".format(hour, minute)
FormatTime(hour, minute) == Format02d(hour) \o <<":">> \o Format02d(minute)

----------------------------------------------------------------------------
(* The state before the module body runs.                                  *)

NoCall == [op |-> "none", x |-> 0, y |-> 0, color |-> OFF, text |-> <<>>]

Init ==
  /\ pc = "boot"
  /\ width = 0
  /\ height = 0
  /\ np = <<>>
  /\ device = <<>>
  /\ writes = 0
  /\ wlan = "inactive"
  /\ polls = 0
  /\ rtc = 0
  /\ t = [hour |-> 0, minute |-> 0]
  /\ time_str = <<>>
  /\ console = <<>>
  /\ call = NoCall
  /\ np0 = <<>>
  /\ log = <<>>

\* time.sleep(0.5): the clock advances by at most MaxTick minutes.
sleep == \E d \in 0 .. MaxTick : rtc' = (rtc + d) % (24 * 60)

----------------------------------------------------------------------------
(* The program: the module body.                                           *)

\* matrix = Matrix(DATA_PIN, MATRIX_WIDTH, MATRIX_HEIGHT)
matrix ==
  /\ pc = "boot"
  /\ Matrix_init(MATRIX_WIDTH, MATRIX_HEIGHT)
  /\ pc' = "connect_wifi"
  /\ UNCHANGED <<device, writes, wlan, polls, rtc, t, time_str, console,
                 call, np0, log>>

\* connect_wifi: wlan.active(True); wlan.connect(...)
connect_wifi ==
  /\ pc = "connect_wifi"
  /\ wlan' = "connecting"
  /\ pc' = "wifi_wait"
  /\ UNCHANGED <<width, height, np, device, writes, polls, rtc, t, time_str,
                 console, call, np0, log>>

\* connect_wifi: one test of `while not wlan.isconnected()`; either the
\* body sleeps, or the loop ends, the message is printed and the call
\* returns.
wifi_wait ==
  /\ pc = "wifi_wait"
  /\ \E connected \in BOOLEAN :
       IF connected
       THEN /\ wlan' = "connected"
            /\ console' = Append(console, "WiFi connected")
            /\ pc' = "sync_time"
            /\ UNCHANGED <<rtc, polls>>
       ELSE /\ polls < MaxPolls
            /\ polls' = polls + 1
            /\ sleep
            /\ UNCHANGED <<wlan, console, pc>>
  /\ UNCHANGED <<width, height, np, device, writes, t, time_str,
                 call, np0, log>>

sync_time_propagates ==
  /\ pc = "sync_time"
  /\ \E ok \in BOOLEAN :
       IF ok
       THEN /\ rtc' \in 0 .. 24 * 60 - 1
            /\ pc' = "loop_localtime"
       ELSE /\ rtc' = rtc
            /\ pc' = "uncaught_exception"
  /\ UNCHANGED <<width, height, np, device, writes, wlan, polls, t,
                 time_str,
                 console, call, np0, log>>

\* sync_time(): ntptime.settime() sets the clock, or raises and the
\* handler prints the failure; either way the call returns.
sync_time ==
  /\ pc = "sync_time"
  /\ \E ok \in BOOLEAN :
       IF ok
       THEN /\ rtc' \in 0 .. 24 * 60 - 1
            /\ console' = console
       ELSE /\ rtc' = rtc
            /\ console' = Append(console, "NTP sync failed:")
  /\ pc' = "loop_localtime"
  /\ UNCHANGED <<width, height, np, device, writes, wlan, polls, t,
                 time_str,
                 call, np0, log>>

\* t = time.localtime()
loop_localtime ==
  /\ pc = "loop_localtime"
  /\ t' = [hour |-> rtc \div 60, minute |-> rtc % 60]
  /\ pc' = "loop_format"
  /\ UNCHANGED <<width, height, np, device, writes, wlan, polls, rtc, time_str,
                 console, call, np0, log>>

\* time_str = "{:02d}:{:02d}".format(t[3], t[4])
loop_format ==
  /\ pc = "loop_format"
  /\ time_str' = FormatTime(t.hour, t.minute)
  /\ pc' = "loop_fill"
  /\ UNCHANGED <<width, height, np, device, writes, wlan, polls, rtc, t,
                 console, call, np0, log>>

\* matrix.fill((0, 0, 0))
loop_fill ==
  /\ pc = "loop_fill"
  /\ Matrix_fill(OFF)
  /\ pc' = "loop_draw_text"
  /\ UNCHANGED <<width, height, wlan, polls, rtc, t, time_str, console,
                 call, np0, log>>

\* draw_text(time_str, 2, 4, (0, 20, 50))
loop_draw_text ==
  /\ pc = "loop_draw_text"
  /\ np' = draw_text(np, time_str, ORIGIN_X, ORIGIN_Y, TEXT_COLOR)
  /\ pc' = "loop_show"
  /\ UNCHANGED <<width, height, device, writes, wlan, polls, rtc, t, time_str,
                 console, call, np0, log>>

\* matrix.show()
loop_show ==
  /\ pc = "loop_show"
  /\ Matrix_show
  /\ pc' = "loop_sleep"
  /\ UNCHANGED <<width, height, wlan, polls, rtc, t, time_str, console,
                 call, np0, log>>

\* time.sleep(0.5), then back to the head of `while True`
loop_sleep ==
  /\ pc = "loop_sleep"
  /\ sleep
  /\ pc' = "loop_localtime"
  /\ UNCHANGED <<width, height, np, device, writes, wlan, polls, t,
                 time_str,
                 console, call, np0, log>>

Next ==
  \/ matrix
  \/ connect_wifi
  \/ wifi_wait
  \/ sync_time
  \/ loop_localtime
  \/ loop_format
  \/ loop_fill
  \/ loop_draw_text
  \/ loop_show
  \/ loop_sleep

Spec == Init /\ [][Next]_vars

\* One interpreter runs the module body statement after statement: a
\* statement that can run does run.
FairSpec == Init /\ [][Next]_vars /\ WF_vars(Next)

----------------------------------------------------------------------------
(* Call drivers: the canvas operations applied to bounded inputs.          *)

Colors == {OFF, TEXT_COLOR}

Chars == DOMAIN FONT \cup {"x", " "}

Texts ==
  { <<>>, <<"1">>, <<"x">>, <<"1", "x", "1">>, <<"x", "1">>, <<"1", "2">>,
    <<"0", "7", ":">> }

GlyphCanvases == { <<5, 5>>, <<18, 5>>, <<4, 3>> }

\* every canvas up to the bounds, degenerate ones included, and the 4x3
\* canvas
PixelCanvases == ((0 .. MaxWidth) \X (0 .. MaxHeight)) \cup { <<4, 3>> }

Call(op, x, y, color, text) ==
  [op |-> op, x |-> x, y |-> y, color |-> color, text |-> text]

program_state == <<wlan, polls, rtc, t, time_str, console>>

\* Matrix(pin, w, h) for every canvas of PixelCanvases
PixelNew ==
  /\ pc = "boot"
  /\ \E c \in PixelCanvases :
       /\ Matrix_init(c[1], c[2])
       /\ call' = Call("new", c[1], c[2], OFF, <<>>)
  /\ pc' = "pixel_api"
  /\ np0' = np
  /\ log' = <<>>
  /\ UNCHANGED <<device, writes, program_state>>

\* matrix.fill(color)
PixelFill ==
  /\ pc = "pixel_api"
  /\ Len(log) < MaxOps
  /\ \E color \in Colors :
       /\ Matrix_fill(color)
       /\ call' = Call("fill", 0, 0, color, <<>>)
  /\ np0' = np
  /\ log' = Append(log, call')
  /\ UNCHANGED <<pc, width, height, program_state>>

\* matrix.set_pixel(x, y, color), in range and out of range
PixelSetPixel ==
  /\ pc = "pixel_api"
  /\ Len(log) < MaxOps
  /\ \E x \in -1 .. width, y \in -1 .. height, color \in Colors :
       /\ np' = set_pixel(np, x, y, color)
       /\ call' = Call("set_pixel", x, y, color, <<>>)
  /\ np0' = np
  /\ log' = Append(log, call')
  /\ UNCHANGED <<pc, width, height, device, writes, program_state>>

\* matrix.show()
PixelShow ==
  /\ pc = "pixel_api"
  /\ Len(log) < MaxOps
  /\ Matrix_show
  /\ call' = Call("show", 0, 0, OFF, <<>>)
  /\ np0' = np
  /\ log' = Append(log, call')
  /\ UNCHANGED <<pc, width, height, program_state>>

PixelNext == PixelNew \/ PixelFill \/ PixelSetPixel \/ PixelShow

PixelSpec == Init /\ [][PixelNext]_vars

\* Matrix(pin, w, h) for the canvases glyphs are drawn on
GlyphNew ==
  /\ pc = "boot"
  /\ \E c \in GlyphCanvases :
       /\ Matrix_init(c[1], c[2])
       /\ call' = Call("new", c[1], c[2], OFF, <<>>)
  /\ pc' = "glyph_fresh"
  /\ np0' = np
  /\ UNCHANGED <<device, writes, program_state, log>>

\* matrix.fill(color) on the fresh canvas
GlyphFill ==
  /\ pc = "glyph_fresh"
  /\ \E color \in Colors :
       /\ Matrix_fill(color)
       /\ call' = Call("fill", 0, 0, color, <<>>)
  /\ pc' = "glyph_filled"
  /\ np0' = np
  /\ UNCHANGED <<width, height, program_state, log>>

\* draw_char(char, x, y, color)
GlyphDrawChar ==
  /\ pc \in {"glyph_fresh", "glyph_filled"}
  /\ \E char \in Chars, color \in Colors,
        x \in -OriginMargin .. width + 1, y \in -OriginMargin .. height + 1 :
       /\ np' = draw_char(np, char, x, y, color)
       /\ call' = Call("draw_char", x, y, color, <<char>>)
  /\ pc' = "glyph_drawn"
  /\ np0' = np
  /\ UNCHANGED <<width, height, device, writes, program_state, log>>

\* draw_text(text, x, y, color)
GlyphDrawText ==
  /\ pc \in {"glyph_fresh", "glyph_filled"}
  /\ \E text \in Texts, color \in Colors,
        x \in -OriginMargin .. width + 1, y \in -OriginMargin .. height + 1 :
       /\ np' = draw_text(np, text, x, y, color)
       /\ call' = Call("draw_text", x, y, color, text)
  /\ pc' = "glyph_drawn"
  /\ np0' = np
  /\ UNCHANGED <<width, height, device, writes, program_state, log>>

\* matrix.show() after the drawing
GlyphShow ==
  /\ pc = "glyph_drawn"
  /\ Matrix_show
  /\ pc' = "glyph_shown"
  /\ UNCHANGED <<width, height, program_state, call, np0, log>>

GlyphNext ==
  GlyphNew \/ GlyphFill \/ GlyphDrawChar \/ GlyphDrawText \/ GlyphShow

GlyphSpec == Init /\ [][GlyphNext]_vars

----------------------------------------------------------------------------
(* Vocabulary of the properties.                                           *)

Valid(x, y) == 0 <= x /\ x < width /\ 0 <= y /\ y < height

\* the buffer index the wiring gives the pixel in column x of row y
Serpentine(x, y) == y * width + (IF y % 2 = 0 THEN x ELSE width - 1 - x)

Blank(buf) == \A i \in DOMAIN buf : buf[i] = OFF

\* column cx of row cy of the glyph of char is set (bit 4 = column 0)
GlyphLit(char, cx, cy) ==
  /\ char \in DOMAIN FONT
  /\ cx \in 0 .. 4
  /\ cy \in 0 .. 4
  /\ (FONT[char][cy + 1] \div 2 ^ (4 - cx)) % 2 = 1

\* some character of text, the i-th placed 6*(i-1) columns right of the
\* origin (x, y), has a set glyph bit at the pixel (px, py)
TextLit(text, x, y, px, py) ==
  \E i \in 1 .. Len(text) : GlyphLit(text[i], px - (x + 6 * (i - 1)), py - y)

\* buf holds text drawn from (x, y) in TEXT_COLOR on an off background
FrameShows(buf, text, x, y) ==
  \A px \in 0 .. width - 1, py \in 0 .. height - 1 :
    buf[Serpentine(px, py)] =
      IF TextLit(text, x, y, px, py) THEN TEXT_COLOR ELSE OFF

RECURSIVE LastWrite(_, _, _)
\* the colour the calls of the sequence calls last gave the pixel (x, y)
LastWrite(calls, x, y) ==
  IF calls = <<>> THEN OFF
  ELSE LET c == calls[Len(calls)]
       IN IF c.op = "fill" \/ (c.op = "set_pixel" /\ c.x = x /\ c.y = y)
          THEN c.color
          ELSE LastWrite(SubSeq(calls, 1, Len(calls) - 1), x, y)

InLoopAfterFormat ==
  pc \in {"loop_fill", "loop_draw_text", "loop_show", "loop_sleep"}

----------------------------------------------------------------------------
(* Properties.                                                             *)

\* C1: for every canvas of width >= 1 and height >= 1 and every valid
\* (x, y), _pixel_index(x, y) is y*width + x on an even row and
\* y*width + (width-1-x) on an odd row; on the 4x3 canvas index(0,0)=0,
\* index(3,0)=3, index(0,1)=7, index(3,1)=4, index(0,2)=8; and that is the
\* element an in-range set_pixel stores its colour in.
C1_SerpentineIndex ==
  pc = "pixel_api" =>
    /\ \A x \in 0 .. width - 1, y \in 0 .. height - 1 :
         /\ y % 2 = 0 => _pixel_index(width, x, y) = y * width + x
         /\ y % 2 = 1 => _pixel_index(width, x, y) = y * width + (width - 1 - x)
    /\ (width = 4 /\ height = 3) =>
         /\ _pixel_index(width, 0, 0) = 0
         /\ _pixel_index(width, 3, 0) = 3
         /\ _pixel_index(width, 0, 1) = 7
         /\ _pixel_index(width, 3, 1) = 4
         /\ _pixel_index(width, 0, 2) = 8
    /\ (call.op = "set_pixel" /\ Valid(call.x, call.y)) =>
         np[call.y * width
            + (IF call.y % 2 = 0 THEN call.x ELSE width - 1 - call.x)]
           = call.color

C1_Witness ==
  /\ pc = "pixel_api"
  /\ width = 4
  /\ height = 3
  /\ call = Call("set_pixel", 0, 1, TEXT_COLOR, <<>>)
  /\ np[7] = TEXT_COLOR
  /\ np0[7] = OFF

\* C2: the only canvas operation that calls the driver's write() is show:
\* the number of driver writes equals the number of show calls made, so
\* fill transmits nothing.
C2_OnlyShowWrites ==
  pc = "pixel_api" =>
    writes = Cardinality({i \in 1 .. Len(log) : log[i].op = "show"})

\* C3: constructing the canvas with width 0 or height 0 fails, so no
\* constructed Matrix has a zero dimension.
C3_ZeroDimensionFails ==
  pc = "pixel_api" => (width >= 1 /\ height >= 1)

\* C4: set_pixel with a coordinate outside the canvas leaves every buffer
\* element unchanged; with a coordinate inside it changes the element at
\* the serpentine index to the colour and no other element.
C4_SetPixelBounds ==
  (pc = "pixel_api" /\ call.op = "set_pixel") =>
    /\ DOMAIN np = DOMAIN np0
    /\ IF Valid(call.x, call.y)
       THEN \A i \in DOMAIN np :
              np[i] = IF i = Serpentine(call.x, call.y)
                      THEN call.color ELSE np0[i]
       ELSE np = np0

C4_Witness ==
  /\ pc = "pixel_api"
  /\ call.op = "set_pixel"
  /\ call.x = -1
  /\ call.y = 1
  /\ height = 3
  /\ call.color = OFF
  /\ ~Blank(np0)
  /\ np = np0

\* C5: draw_char of a recognized character at any origin on a canvas that
\* is all off leaves lit, in the colour, exactly the in-range pixels
\* (x+col, y+row) whose glyph bit 4-col of row mask `row` is set, and every
\* other pixel off; '1' at (0,0) on the 5x5 canvas lights exactly the set
\* bits of the '1' bitmap.
C5_DrawCharLitPixels ==
  (/\ pc \in {"glyph_drawn", "glyph_shown"}
   /\ call.op = "draw_char"
   /\ call.text[1] \in DOMAIN FONT
   /\ Blank(np0)) =>
    /\ DOMAIN np = DOMAIN np0
    /\ \A px \in 0 .. width - 1, py \in 0 .. height - 1 :
         np[Serpentine(px, py)] =
           IF GlyphLit(call.text[1], px - call.x, py - call.y)
           THEN call.color ELSE OFF
    /\ (/\ width = 5
        /\ height = 5
        /\ call = Call("draw_char", 0, 0, TEXT_COLOR, <<"1">>)) =>
         {p \in (0 .. 4) \X (0 .. 4) : np[Serpentine(p[1], p[2])] # OFF}
           = { <<2, 0>>, <<1, 1>>, <<2, 1>>, <<2, 2>>, <<2, 3>>,
               <<1, 4>>, <<2, 4>>, <<3, 4>> }

C5_Witness ==
  /\ pc = "glyph_drawn"
  /\ width = 5
  /\ height = 5
  /\ call = Call("draw_char", 0, 0, TEXT_COLOR, <<"1">>)
  /\ Blank(np0)
  /\ np[Serpentine(1, 1)] = TEXT_COLOR
  /\ np[Serpentine(3, 1)] = OFF

\* C6: draw_text draws its i-th character (0-based) at x + 6*i whether or
\* not the characters before it are recognized, and an unrecognized
\* character writes nothing: a pixel takes the colour iff a recognized
\* character so placed has its glyph bit there, and keeps its value
\* otherwise; draw_text("1x1", x, y, C) gives the buffer that
\* draw_text("1", x, y, C) followed by draw_text("1", x+12, y, C) gives.
C6_DrawTextAdvance ==
  (pc \in {"glyph_drawn", "glyph_shown"} /\ call.op = "draw_text") =>
    /\ DOMAIN np = DOMAIN np0
    /\ \A px \in 0 .. width - 1, py \in 0 .. height - 1 :
         np[Serpentine(px, py)] =
           IF TextLit(call.text, call.x, call.y, px, py)
           THEN call.color ELSE np0[Serpentine(px, py)]
    /\ call.text = <<"1", "x", "1">> =>
         np = draw_text(draw_text(np0, <<"1">>, call.x, call.y, call.color),
                        <<"1">>, call.x + 12, call.y, call.color)

C6_Witness ==
  /\ pc = "glyph_drawn"
  /\ width = 18
  /\ call = Call("draw_text", 0, 0, TEXT_COLOR, <<"1", "x", "1">>)
  /\ Blank(np0)
  /\ np[Serpentine(2, 0)] = TEXT_COLOR
  /\ np[Serpentine(14, 0)] = TEXT_COLOR
  /\ \A px \in 5 .. 11, py \in 0 .. 4 : np[Serpentine(px, py)] = OFF

\* C7: once connect_wifi has returned, whether ntptime.settime() succeeds
\* or raises, the render loop is entered and a frame showing the time read
\* from the clock is eventually flushed to the device.
C7_SyncFailureNeverStopsRendering ==
  (pc = "sync_time") ~>
    (pc = "loop_sleep" /\ device = np /\ FrameShows(device, time_str, 2, 4))

C7_Witness ==
  /\ pc = "loop_sleep"
  /\ \E i \in 1 .. Len(console) : console[i] = "NTP sync failed:"
  /\ writes >= 2
  /\ FrameShows(device, time_str, 2, 4)

\* C8: for every hour in 0..23 and minute in 0..59 the string handed to
\* draw_text is the 5 characters HH:MM, hour and minute zero-padded to two
\* digits (7:05 gives "07:05", 23:59 gives "23:59"), and the font
\* recognizes each of them.
C8_TimeFormat ==
  InLoopAfterFormat =>
    /\ t.hour \in 0 .. 23
    /\ t.minute \in 0 .. 59
    /\ Len(time_str) = 5
    /\ time_str = << DigitChar(t.hour \div 10), DigitChar(t.hour % 10), ":",
                     DigitChar(t.minute \div 10), DigitChar(t.minute % 10) >>
    /\ \A i \in 1 .. 5 : time_str[i] \in DOMAIN FONT
    /\ (t.hour = 7 /\ t.minute = 5) =>
         time_str = <<"0", "7", ":", "0", "5">>
    /\ (t.hour = 23 /\ t.minute = 59) =>
         time_str = <<"2", "3", ":", "5", "9">>

C8_Witness ==
  /\ pc = "loop_draw_text"
  /\ t = [hour |-> 7, minute |-> 5]
  /\ time_str = <<"0", "7", ":", "0", "5">>

\* C9: in every iteration the canvas is all off when draw_text starts, it
\* holds exactly the glyph pixels of this iteration's HH:MM string drawn
\* from (2, 4) when show starts, and the frame show transmits is that
\* buffer: no glyph pixel falls outside the 48x16 canvas and no pixel of
\* an earlier frame survives.
C9_FrameIsCurrentTime ==
  /\ pc = "loop_draw_text" => Blank(np)
  /\ pc = "loop_show" => FrameShows(np, time_str, 2, 4)
  /\ pc = "loop_sleep" =>
       /\ width = 48
       /\ height = 16
       /\ device = np
       /\ FrameShows(device, time_str, 2, 4)
       /\ \A i \in 1 .. Len(time_str), cx \in 0 .. 4, cy \in 0 .. 4 :
            GlyphLit(time_str[i], cx, cy) =>
              /\ Valid(2 + 6 * (i - 1) + cx, 4 + cy)
              /\ device[Serpentine(2 + 6 * (i - 1) + cx, 4 + cy)] = TEXT_COLOR

C9_Witness ==
  /\ pc = "loop_sleep"
  /\ writes = 4
  /\ time_str = <<"1", "0", ":", "0", "0">>
  /\ device[Serpentine(2 + 2, 4)] = TEXT_COLOR
  /\ device[Serpentine(2, 4)] = OFF

\* C10: for every canvas of width >= 1 and height >= 1 the mapping from
\* valid coordinates to buffer indices is a bijection onto
\* 0 .. width*height-1, and after any sequence of fill and set_pixel calls
\* each valid pixel holds the colour of the last call that wrote it.
C10_SerpentineBijection ==
  (pc = "pixel_api" /\ width >= 1 /\ height >= 1) =>
    LET coords == (0 .. width - 1) \X (0 .. height - 1)
        idx(p) == _pixel_index(width, p[1], p[2])
    IN /\ DOMAIN np = 0 .. width * height - 1
       /\ \A p \in coords : idx(p) \in DOMAIN np
       /\ \A p, q \in coords : idx(p) = idx(q) => p = q
       /\ {idx(p) : p \in coords} = DOMAIN np
       /\ \A p \in coords : np[idx(p)] = LastWrite(log, p[1], p[2])

C10_Witness ==
  /\ pc = "pixel_api"
  /\ width = 3
  /\ height = 2
  /\ Len(log) = 2
  /\ log[1] = Call("set_pixel", 0, 1, TEXT_COLOR, <<>>)
  /\ log[2] = Call("set_pixel", 2, 1, TEXT_COLOR, <<>>)
  /\ np[5] = TEXT_COLOR
  /\ np[3] = TEXT_COLOR
  /\ np[4] = OFF

====
